---- MODULE Spec2Model ----
(***************************************************************************)
(* Ashid identifier codec (TypeScript implementation).                     *)
(*                                                                         *)
(*   src/typescript/src/encoder.ts  EncoderBase32Crockford                 *)
(*   src/typescript/src/ashid.ts    Ashid                                  *)
(*                                                                         *)
(* Strings are sequences of one-character strings.  Integers of the        *)
(* program exceed the range of TLC's integers (32^9 - 1, 2^64 - 1), so a   *)
(* non-negative integer is a sequence of decimal limbs, most significant   *)
(* first, seven decimal digits per limb and no leading zero limb:          *)
(* 35184372088831 is <<3518437, 2088831>> and 0 is << >>.                  *)
(***************************************************************************)
EXTENDS Integers, Sequences, FiniteSets, TLC

(***************************************************************************)
(* Arithmetic on non-negative integers of arbitrary size.                  *)
(***************************************************************************)
LimbBase == 10 * 1000 * 1000

Zero == << >>

RECURSIVE StripZeros(_)
StripZeros(s) ==
    IF s = << >> THEN << >>
    ELSE IF s[1] = 0 THEN StripZeros(Tail(s)) ELSE s

RECURSIVE MulAddLimbs(_, _, _)
MulAddLimbs(n, m, carry) ==
    IF n = << >> THEN (IF carry = 0 THEN << >> ELSE <<carry>>)
    ELSE LET v == n[Len(n)] * m + carry
         IN  Append(MulAddLimbs(SubSeq(n, 1, Len(n) - 1), m, v \div LimbBase),
                    v % LimbBase)

\* n * m + a for a small multiplier m and a small addend a
MulAdd(n, m, a) == StripZeros(MulAddLimbs(n, m, a))

RECURSIVE DivLimbs(_, _, _)
DivLimbs(n, d, rem) ==
    IF n = << >> THEN [q |-> << >>, r |-> rem]
    ELSE LET cur  == rem * LimbBase + n[1]
             rest == DivLimbs(Tail(n), d, cur % d)
         IN  [q |-> <<cur \div d>> \o rest.q, r |-> rest.r]

\* quotient and remainder of n by a small divisor d
DivMod(n, d) ==
    LET qr == DivLimbs(n, d, 0) IN [q |-> StripZeros(qr.q), r |-> qr.r]

RECURSIVE LimbsLess(_, _)
LimbsLess(a, b) ==
    IF a = << >> THEN FALSE
    ELSE IF a[1] # b[1] THEN a[1] < b[1]
    ELSE LimbsLess(Tail(a), Tail(b))

\* a < b
BigLess(a, b) ==
    \/ Len(a) < Len(b)
    \/ Len(a) = Len(b) /\ LimbsLess(a, b)

BigLeq(a, b) == a = b \/ BigLess(a, b)

\* Number.MAX_SAFE_INTEGER + 1 = 2^53: below it a JS number holds every
\* integer exactly
TwoPow53 == <<90, 719925, 4740992>>

(***************************************************************************)
(* Characters and JS string primitives.                                    *)
(***************************************************************************)
DigitChars == <<"0", "1", "2", "3", "4", "5", "6", "7", "8", "9">>

LowerChars ==
    <<"a", "b", "c", "d", "e", "f", "g", "h", "i", "j", "k", "l", "m",
      "n", "o", "p", "q", "r", "s", "t", "u", "v", "w", "x", "y", "z">>

UpperChars ==
    <<"A", "B", "C", "D", "E", "F", "G", "H", "I", "J", "K", "L", "M",
      "N", "O", "P", "Q", "R", "S", "T", "U", "V", "W", "X", "Y", "Z">>

\* the one character U+212A KELVIN SIGN, whose lower case is 'k'
KelvinSign == "U+212A"

Range(s) == {s[i] : i \in DOMAIN s}

IndexOf(s, c) == CHOOSE i \in DOMAIN s : s[i] = c

\* /^[a-zA-Z]$/
IsLetter(c) == c \in Range(LowerChars) \/ c \in Range(UpperChars)

\* /[a-zA-Z0-9]/
IsAlnum(c) == IsLetter(c) \/ c \in Range(DigitChars)

\* UTF-16 code unit of the characters the model uses
CodeUnit(c) ==
    IF c \in Range(DigitChars) THEN 47 + IndexOf(DigitChars, c)
    ELSE IF c \in Range(UpperChars) THEN 64 + IndexOf(UpperChars, c)
    ELSE IF c \in Range(LowerChars) THEN 96 + IndexOf(LowerChars, c)
    ELSE CASE c = " " -> 32
           [] c = "!" -> 33
           [] c = "-" -> 45
           [] c = "_" -> 95
           [] c = KelvinSign -> 8490

ToLowerChar(c) ==
    IF c \in Range(UpperChars) THEN LowerChars[IndexOf(UpperChars, c)]
    ELSE IF c = KelvinSign THEN "k"
    ELSE c

ToUpperChar(c) ==
    IF c \in Range(LowerChars) THEN UpperChars[IndexOf(LowerChars, c)] ELSE c

\* String.prototype.toLowerCase
ToLowerCase(s) == [i \in DOMAIN s |-> ToLowerChar(s[i])]

\* String.prototype.toUpperCase
ToUpperCase(s) == [i \in DOMAIN s |-> ToUpperChar(s[i])]

RECURSIVE Repeat(_, _)
Repeat(c, n) == IF n <= 0 THEN << >> ELSE <<c>> \o Repeat(c, n - 1)

\* String.prototype.padStart(width, fill): never truncates
PadStart(s, width, fill) == Repeat(fill, width - Len(s)) \o s

\* String.prototype.slice(0, -n) and slice(-n) for 0 < n
SliceHead(s, n) == SubSeq(s, 1, Len(s) - n)
SliceTail(s, n) == IF Len(s) <= n THEN s ELSE SubSeq(s, Len(s) - n + 1, Len(s))

\* String.prototype.substring(from) and substring(0, to), 0-based
SubstringFrom(s, from) == SubSeq(s, from + 1, Len(s))
SubstringTo(s, to) == SubSeq(s, 1, to)

RECURSIVE StrLess(_, _)
\* a < b on JS strings: code-unit lexicographic order
StrLess(a, b) ==
    IF b = << >> THEN FALSE
    ELSE IF a = << >> THEN TRUE
    ELSE IF a[1] # b[1] THEN CodeUnit(a[1]) < CodeUnit(b[1])
    ELSE StrLess(Tail(a), Tail(b))

(***************************************************************************)
(* Thrown errors.  Where the result is a string (or a tuple of strings), a *)
(* thrown Error is the one-element sequence holding its message, which no  *)
(* string of characters equals.  Where the result is a number, a thrown    *)
(* Error is a one-limb sequence holding a negative limb.                   *)
(***************************************************************************)
ErrEncodeNumber    == <<"Input must be a non-negative finite number">>
ErrEncodeBigInt    == <<"Input must be a non-negative BigInt">>
ErrDecodeEmpty     == <<"Input string cannot be empty">>
ErrDecodeChar      == <<"Invalid character in Base32 string">>
ErrTimeNegative    == <<"Ashid timestamp must be non-negative">>
ErrTimeTooLarge    == <<"Ashid timestamp must not exceed 35184372088831 (Dec 12, 3084)">>
ErrRandomNegative  == <<"Ashid random value must be non-negative">>
ErrRandomsNegative == <<"Ashid random values must be non-negative">>
\* the RangeError of BigInt(NaN)
ErrBigIntRange     == <<"The number NaN cannot be converted to a BigInt because it is not an integer">>
ErrParseEmpty      == <<"Invalid Ashid: cannot be empty">>
ErrParseNoBase     == <<"Invalid Ashid: must have a base ID">>
ErrParseLength     == <<"Invalid Ashid: base ID must be 22 or 26 characters without delimiter">>
\* the IllegalArgumentExceptions of the Java port that have a text of their own
Java_ErrPrefix      == <<"Ashid prefix must contain only letters with optional trailing underscore or dash">>
Java_ErrEncode      == <<"Input must be a non-negative number">>
Java_ErrParseNoBase == <<"Invalid Ashid: must have a base ID after prefix">>
Java_ErrParseLength == <<"Invalid Ashid: base ID must be 22 characters without underscore delimiter">>

Errors ==
    {ErrEncodeNumber, ErrEncodeBigInt, ErrDecodeEmpty, ErrDecodeChar,
     ErrBigIntRange,
     ErrTimeNegative, ErrTimeTooLarge, ErrRandomNegative, ErrRandomsNegative,
     ErrParseEmpty, ErrParseNoBase, ErrParseLength,
     Java_ErrPrefix, Java_ErrEncode, Java_ErrParseNoBase, Java_ErrParseLength}

\* v is a thrown Error (v a string, or a tuple of strings)
IsError(v) == v \in Errors

NumErrDecodeEmpty == <<0 - 1>>
NumErrDecodeChar  == <<0 - 2>>

NumErrParse       == <<0 - 4>>

\* n is a thrown Error (n a number)
IsNumError(n) == n \in {NumErrDecodeEmpty, NumErrDecodeChar, NumErrParse}

\* The message of the Error that a failed decode threw
DecodeErrorOf(n) == IF n = NumErrDecodeEmpty THEN ErrDecodeEmpty ELSE ErrDecodeChar

\* A JS number of 2^53 or more produced by floating-point accumulation: its
\* value is rounded, and all that is known of it is that it is >= 2^53
Inexact == <<0 - 3>>

(***************************************************************************)
(* JS numeric values handed to the library.  A value is a record           *)
(*   type : "number" or "bigint"                                           *)
(*   neg  : the value is below zero (or is -0)                             *)
(*   mag  : the integer part of its absolute value                         *)
(*   frac : its absolute value has a fractional part (numbers only)        *)
(* NaN is the number whose mag is NotANumber.                              *)
(***************************************************************************)
Number(n)  == [type |-> "number", neg |-> FALSE, mag |-> n, frac |-> FALSE]
BigInt(n)  == [type |-> "bigint", neg |-> FALSE, mag |-> n, frac |-> FALSE]
Negated(v) == [v EXCEPT !.neg = TRUE]
PlusHalf(v) == [v EXCEPT !.frac = TRUE]

NotANumber == <<0 - 5>>

NaN == [type |-> "number", neg |-> FALSE, mag |-> NotANumber, frac |-> FALSE]

\* Number.isNaN(v)
IsNaN(v) == v.mag = NotANumber

\* Math.floor on a number; Math.floor(NaN) is NaN
MathFloor(v) ==
    IF IsNaN(v) THEN v
    ELSE IF v.neg /\ v.frac
    THEN [type |-> "number", neg |-> TRUE, mag |-> MulAdd(v.mag, 1, 1), frac |-> FALSE]
    ELSE [type |-> "number", neg |-> v.neg, mag |-> v.mag, frac |-> FALSE]

\* v < 0 (false of -0 and of NaN)
IsBelowZero(v) == ~IsNaN(v) /\ v.neg /\ (v.mag # Zero \/ v.frac)

\* v > 0 (false of NaN)
IsAboveZero(v) == ~IsNaN(v) /\ ~v.neg /\ (v.mag # Zero \/ v.frac)

\* v > bound, for an integer or NaN v and a bound below 2^53 (false of NaN)
IsAbove(v, bound) ==
    ~IsNaN(v) /\ ~v.neg /\ (v.mag = Inexact \/ BigLess(bound, v.mag))

(***************************************************************************)
(* EncoderBase32Crockford                              (encoder.ts)        *)
(***************************************************************************)
\* the 32 symbols of base32hex, which keep i, l, o and u
alphabet_Base32Hex ==
    <<"0", "1", "2", "3", "4", "5", "6", "7", "8", "9",
      "a", "b", "c", "d", "e", "f", "g", "h", "i", "j", "k",
      "l", "m", "n", "o", "p", "q", "r", "s", "t", "u", "v">>

\* private static readonly alphabet
alphabet ==
    <<"0", "1", "2", "3", "4", "5", "6", "7", "8", "9",
      "a", "b", "c", "d", "e", "f", "g", "h", "j", "k",
      "m", "n", "p", "q", "r", "s", "t", "v", "w", "x", "y", "z">>

RECURSIVE encodeRecursive(_)
\* encodeRecursive(n: number): n % 32 and Math.floor(n / 32) are exact on
\* every integer-valued double
encodeRecursive(n) ==
    IF n = Zero THEN <<"0">>
    ELSE LET remainder == DivMod(n, 32).r
             quotient  == DivMod(n, 32).q
         IN  IF quotient = Zero THEN <<alphabet[remainder + 1]>>
             ELSE Append(encodeRecursive(quotient), alphabet[remainder + 1])

RECURSIVE encodeBigIntRecursive(_)
encodeBigIntRecursive(n) ==
    IF n = Zero THEN <<"0">>
    ELSE LET remainder == DivMod(n, 32).r
             quotient  == DivMod(n, 32).q
         IN  IF quotient = Zero THEN <<alphabet[remainder + 1]>>
             ELSE Append(encodeBigIntRecursive(quotient), alphabet[remainder + 1])

\* encode padding whatever the flag says
encode_AlwaysPadded(v, padded) ==
    IF IsNaN(v) \/ IsBelowZero(v) THEN ErrEncodeNumber
    ELSE PadStart(encodeRecursive(MathFloor(v).mag), 13, "0")

\* encode(n: number, padded), n finite or NaN
encode(v, padded) ==
    IF IsNaN(v) \/ IsBelowZero(v) THEN ErrEncodeNumber
    ELSE LET encoded == encodeRecursive(MathFloor(v).mag)
         IN  IF padded THEN PadStart(encoded, 13, "0") ELSE encoded

\* encodeBigInt ignoring the padding flag
encodeBigInt_NeverPadded(v, padded) ==
    IF IsBelowZero(v) THEN ErrEncodeBigInt ELSE encodeBigIntRecursive(v.mag)

\* encodeBigInt(n: bigint, padded)
encodeBigInt(v, padded) ==
    IF IsBelowZero(v) THEN ErrEncodeBigInt
    ELSE LET encoded == encodeBigIntRecursive(v.mag)
         IN  IF padded THEN PadStart(encoded, 13, "0") ELSE encoded

\* The switch of decodeChar: decodeCases[k + 1] holds the case labels that
\* return k
decodeCases ==
    <<{"0", "o", "O"}, {"1", "i", "I", "l", "L"}, {"2"}, {"3"}, {"4"}, {"5"},
      {"6"}, {"7"}, {"8"}, {"9"}, {"a", "A"}, {"b", "B"}, {"c", "C"},
      {"d", "D"}, {"e", "E"}, {"f", "F"}, {"g", "G"}, {"h", "H"}, {"j", "J"},
      {"k", "K"}, {"m", "M"}, {"n", "N"}, {"p", "P"}, {"q", "Q"}, {"r", "R"},
      {"s", "S"}, {"t", "T"}, {"u", "U", "v", "V"}, {"w", "W"}, {"x", "X"},
      {"y", "Y"}, {"z", "Z"}>>

\* decodeChar knowing the symbols of the alphabet only
decodeChar_NoLookalikes(char) ==
    IF char \in Range(alphabet) THEN IndexOf(alphabet, char) - 1 ELSE 0 - 1

\* decodeChar(char): number
decodeChar(char) ==
    IF \E k \in DOMAIN decodeCases : char \in decodeCases[k]
    THEN (CHOOSE k \in DOMAIN decodeCases : char \in decodeCases[k]) - 1
    ELSE 0 - 1

RECURSIVE decodeLoop(_, _, _)
\* the for loop of decode and decodeBigInt from index i (1-based) on
decodeLoop(normalized, i, result) ==
    IF i > Len(normalized) THEN result
    ELSE LET value == decodeChar(normalized[i])
         IN  IF value = 0 - 1 THEN NumErrDecodeChar
             ELSE decodeLoop(normalized, i + 1, MulAdd(result, 32, value))

\* decodeBigInt starting at the second symbol
decodeBigInt_SkipsFirst(str) ==
    IF Len(str) = 0 THEN NumErrDecodeEmpty
    ELSE decodeLoop(ToLowerCase(str), 2, Zero)

\* decodeBigInt(str): bigint
decodeBigInt(str) ==
    IF Len(str) = 0 THEN NumErrDecodeEmpty
    ELSE decodeLoop(ToLowerCase(str), 1, Zero)

\* n is an integer that a double holds exactly: it is below 2^53, or it is
\* twice such an integer
RECURSIVE IsDouble(_)
IsDouble(n) ==
    \/ BigLess(n, TwoPow53)
    \/ DivMod(n, 2).r = 0 /\ IsDouble(DivMod(n, 2).q)

\* decode(str): number.  After k symbols the accumulator should hold the
\* integer part of value / 32^(length - k), which has no more significant bits
\* than the value.  So when the value is a double every result * 32 + value
\* is exact; when it is not, the value is at or above 2^53 and what is
\* returned is rounded.
decode(str) ==
    LET exact == decodeBigInt(str)
    IN  IF IsNumError(exact) THEN exact
        ELSE IF IsDouble(exact) THEN exact ELSE Inexact

\* readBigUInt64BE(0) of an 8-byte buffer; also (high << 32n) | low of the
\* two 32-bit words the same bytes make up
RECURSIVE readBigUInt64BE(_, _)
readBigUInt64BE(buffer, acc) ==
    IF buffer = << >> THEN acc
    ELSE readBigUInt64BE(Tail(buffer), MulAdd(MulAdd(acc, 16, 0), 16, buffer[1]))

\* console.warn of the fallback
WarnNotSecure == "Crypto API not available, using Math.random() (NOT SECURE)"

\* the source consulted first being Web Crypto
secureRandomSource_WebFirst(nodeCrypto, webCrypto) ==
    IF webCrypto THEN "web" ELSE IF nodeCrypto THEN "node" ELSE "fallback"

\* the source secureRandomLong returns from: nodeCrypto says that
\* require('crypto') and randomBytes work, webCrypto that globalThis.crypto
\* has getRandomValues
secureRandomSource(nodeCrypto, webCrypto) ==
    IF nodeCrypto THEN "node" ELSE IF webCrypto THEN "web" ELSE "fallback"

\* EncoderBase32Crockford.isValid(str)
encoderIsValid(str) ==
    IF Len(str) = 0 THEN FALSE ELSE ~IsNumError(decode(str))

(***************************************************************************)
(* Ashid                                                 (ashid.ts)        *)
(***************************************************************************)
MAX_TIMESTAMP == <<3518437, 2088831>>

RANDOM_ENCODED_LENGTH == 13

TIMESTAMP_ENCODED_LENGTH == 9

STANDARD_BASE_LENGTH == 22

ASHID4_BASE_LENGTH == 26

\* the value undefined of an optional string argument
Undefined == <<"undefined">>

\* prefix.replace(/[^a-zA-Z0-9]/g, '')
RECURSIVE StripNonAlnum(_)
StripNonAlnum(s) ==
    IF s = << >> THEN << >>
    ELSE IF IsAlnum(s[1]) THEN <<s[1]>> \o StripNonAlnum(Tail(s))
    ELSE StripNonAlnum(Tail(s))

\* normalizePrefix returning the bare delimiter for a tag cleaned to nothing
normalizePrefix_KeepsEmpty(prefix) ==
    IF prefix = Undefined \/ prefix = << >> THEN Undefined
    ELSE Append(ToLowerCase(StripNonAlnum(prefix)), "_")

\* Ashid.normalizePrefix(prefix)
normalizePrefix(prefix) ==
    IF prefix = Undefined \/ prefix = << >> THEN Undefined
    ELSE LET cleaned == ToLowerCase(StripNonAlnum(prefix))
         IN  IF cleaned = << >> THEN Undefined ELSE Append(cleaned, "_")

\* typeof r === 'bigint' ? r : BigInt(Math.floor(r)), where it returns
ToRandomBigInt(r) ==
    IF r.type = "bigint" THEN r ELSE [MathFloor(r) EXCEPT !.type = "bigint"]

\* BigInt(Math.floor(r)) throws: r is the number NaN
BigIntThrows(r) == r.type = "number" /\ IsNaN(r)

\* baseIdWithPrefix with the random value never padded
baseIdWithPrefix_NoRandomPad(flooredTime, randomBigInt) ==
    IF IsAboveZero(flooredTime)
    THEN encode(flooredTime, FALSE) \o encodeBigInt(randomBigInt, FALSE)
    ELSE encodeBigInt(randomBigInt, FALSE)

\* the branch of create taken with a prefix: variable length
baseIdWithPrefix(flooredTime, randomBigInt) ==
    LET randomEncoded ==
            IF IsAboveZero(flooredTime)
            THEN encodeBigInt(randomBigInt, TRUE)
            ELSE encodeBigInt(randomBigInt, FALSE)
    IN  IF IsAboveZero(flooredTime)
        THEN encode(flooredTime, FALSE) \o randomEncoded
        ELSE randomEncoded

\* baseIdNoPrefix with the timestamp not padded
baseIdNoPrefix_NoTimePad(flooredTime, randomBigInt) ==
    IF IsError(encode(flooredTime, FALSE)) THEN encode(flooredTime, FALSE)
    ELSE encode(flooredTime, FALSE) \o encodeBigInt(randomBigInt, TRUE)

\* the branch of create taken without a prefix: fixed length
baseIdNoPrefix(flooredTime, randomBigInt) ==
    IF IsError(encode(flooredTime, FALSE)) THEN encode(flooredTime, FALSE)
    ELSE
    LET timeEncoded ==
            PadStart(encode(flooredTime, FALSE), TIMESTAMP_ENCODED_LENGTH, "0")
        randomEncoded == encodeBigInt(randomBigInt, TRUE)
    IN  timeEncoded \o randomEncoded

\* create writing the tag as it was given, followed by the delimiter
create_RawPrefix(prefix, time, randomLong) ==
    LET flooredTime  == MathFloor(time)
        randomBigInt == ToRandomBigInt(randomLong)
    IN  IF IsBelowZero(flooredTime) THEN ErrTimeNegative
        ELSE IF IsAbove(flooredTime, MAX_TIMESTAMP) THEN ErrTimeTooLarge
        ELSE IF BigIntThrows(randomLong) THEN ErrBigIntRange
        ELSE IF IsBelowZero(randomBigInt) THEN ErrRandomNegative
        ELSE IF prefix # Undefined /\ prefix # << >>
        THEN Append(prefix, "_") \o baseIdWithPrefix(flooredTime, randomBigInt)
        ELSE baseIdNoPrefix(flooredTime, randomBigInt)

\* Ashid.create(prefix, time, randomLong) with all three arguments given
create(prefix, time, randomLong) ==
    LET normalizedPrefix == normalizePrefix(prefix)
        flooredTime      == MathFloor(time)
        randomBigInt     == ToRandomBigInt(randomLong)
    IN  IF IsBelowZero(flooredTime) THEN ErrTimeNegative
        ELSE IF IsAbove(flooredTime, MAX_TIMESTAMP) THEN ErrTimeTooLarge
        ELSE IF BigIntThrows(randomLong) THEN ErrBigIntRange
        ELSE IF IsBelowZero(randomBigInt) THEN ErrRandomNegative
        ELSE IF normalizedPrefix # Undefined
        THEN normalizedPrefix \o baseIdWithPrefix(flooredTime, randomBigInt)
        ELSE baseIdNoPrefix(flooredTime, randomBigInt)

\* create4 writing the tag as it was given, followed by the delimiter
create4_RawPrefix(prefix, random1, random2) ==
    LET randomBigInt1 == ToRandomBigInt(random1)
        randomBigInt2 == ToRandomBigInt(random2)
    IN  IF BigIntThrows(random1) \/ BigIntThrows(random2) THEN ErrBigIntRange
        ELSE IF IsBelowZero(randomBigInt1) \/ IsBelowZero(randomBigInt2)
        THEN ErrRandomsNegative
        ELSE (IF prefix # Undefined THEN Append(prefix, "_") ELSE << >>)
             \o encodeBigInt(randomBigInt1, TRUE)
             \o encodeBigInt(randomBigInt2, TRUE)

\* Ashid.create4(prefix, random1, random2) with all three arguments given
create4(prefix, random1, random2) ==
    LET normalizedPrefix == normalizePrefix(prefix)
        randomBigInt1    == ToRandomBigInt(random1)
        randomBigInt2    == ToRandomBigInt(random2)
    IN  IF BigIntThrows(random1) \/ BigIntThrows(random2) THEN ErrBigIntRange
        ELSE IF IsBelowZero(randomBigInt1) \/ IsBelowZero(randomBigInt2)
        THEN ErrRandomsNegative
        ELSE LET encoded1 == encodeBigInt(randomBigInt1, TRUE)
                 encoded2 == encodeBigInt(randomBigInt2, TRUE)
                 baseId   == encoded1 \o encoded2
             IN  (IF normalizedPrefix # Undefined THEN normalizedPrefix ELSE << >>)
                 \o baseId

RECURSIVE scanPrefix(_, _, _)
\* the for loop of parse from index i (0-based) on
scanPrefix(id, i, prefixLength) ==
    IF i >= Len(id) THEN [prefixLength |-> prefixLength, hasDelimiter |-> FALSE]
    ELSE IF IsLetter(id[i + 1]) THEN scanPrefix(id, i + 1, prefixLength + 1)
    ELSE IF id[i + 1] \in {"_", "-"} /\ prefixLength > 0
    THEN [prefixLength |-> prefixLength + 1, hasDelimiter |-> TRUE]
    ELSE [prefixLength |-> 0, hasDelimiter |-> FALSE]

\* the prefix handed back as it was written
ReplaceTrailingDash_Identity(s) == s

\* s.replace(/-$/, '_')
ReplaceTrailingDash(s) ==
    IF s # << >> /\ s[Len(s)] = "-" THEN [s EXCEPT ![Len(s)] = "_"] ELSE s

\* the split taking 9 timestamp symbols from a delimited base as well
splitBaseId_FixedTimestamp(prefix, hasDelimiter, baseId) ==
    IF hasDelimiter
    THEN IF Len(baseId) <= RANDOM_ENCODED_LENGTH
         THEN <<prefix, <<"0">>, baseId>>
         ELSE <<prefix, SubstringTo(baseId, TIMESTAMP_ENCODED_LENGTH),
                SubstringFrom(baseId, TIMESTAMP_ENCODED_LENGTH)>>
    ELSE IF Len(baseId) = ASHID4_BASE_LENGTH
    THEN <<prefix, SubstringTo(baseId, RANDOM_ENCODED_LENGTH),
           SubstringFrom(baseId, RANDOM_ENCODED_LENGTH)>>
    ELSE IF Len(baseId) = STANDARD_BASE_LENGTH
    THEN <<prefix, SubstringTo(baseId, TIMESTAMP_ENCODED_LENGTH),
           SubstringFrom(baseId, TIMESTAMP_ENCODED_LENGTH)>>
    ELSE ErrParseLength

\* the split of parse into <<prefix, encodedTimestamp, encodedRandom>>
splitBaseId(prefix, hasDelimiter, baseId) ==
    IF hasDelimiter
    THEN IF Len(baseId) <= RANDOM_ENCODED_LENGTH
         THEN <<prefix, <<"0">>, baseId>>
         ELSE <<prefix, SliceHead(baseId, RANDOM_ENCODED_LENGTH),
                SliceTail(baseId, RANDOM_ENCODED_LENGTH)>>
    ELSE IF Len(baseId) = ASHID4_BASE_LENGTH
    THEN <<prefix, SubstringTo(baseId, RANDOM_ENCODED_LENGTH),
           SubstringFrom(baseId, RANDOM_ENCODED_LENGTH)>>
    ELSE IF Len(baseId) = STANDARD_BASE_LENGTH
    THEN <<prefix, SubstringTo(baseId, TIMESTAMP_ENCODED_LENGTH),
           SubstringFrom(baseId, TIMESTAMP_ENCODED_LENGTH)>>
    ELSE ErrParseLength

\* parse splitting whatever follows the prefix, an empty base included
parse_NoBaseCheck(id) ==
    IF Len(id) = 0 THEN ErrParseEmpty
    ELSE
    LET scan   == scanPrefix(id, 0, 0)
        prefix == IF scan.hasDelimiter
                  THEN ReplaceTrailingDash(SubstringTo(id, scan.prefixLength))
                  ELSE << >>
        baseId == SubstringFrom(id, scan.prefixLength)
    IN  splitBaseId(prefix, scan.hasDelimiter, baseId)

\* Ashid.parse(id): <<prefix, encodedTimestamp, encodedRandom>>
parse(id) ==
    IF Len(id) = 0 THEN ErrParseEmpty
    ELSE
    LET scan   == scanPrefix(id, 0, 0)
        prefix == IF scan.hasDelimiter
                  THEN ReplaceTrailingDash(SubstringTo(id, scan.prefixLength))
                  ELSE << >>
        baseId == SubstringFrom(id, scan.prefixLength)
    IN  IF Len(baseId) = 0 THEN ErrParseNoBase
        ELSE splitBaseId(prefix, scan.hasDelimiter, baseId)

\* Ashid.prefix(id)
prefixOf(id) ==
    LET parsed == parse(id) IN IF IsError(parsed) THEN parsed ELSE parsed[1]

\* Ashid.timestamp(id): number
timestamp(id) ==
    LET parsed == parse(id)
    IN  IF IsError(parsed) THEN NumErrParse ELSE decode(parsed[2])

\* Ashid.random(id): bigint
random(id) ==
    LET parsed == parse(id)
    IN  IF IsError(parsed) THEN NumErrParse ELSE decodeBigInt(parsed[3])

\* /^[a-zA-Z0-9]+_$/
IsAlnumThenUnderscore(s) ==
    /\ Len(s) >= 2
    /\ s[Len(s)] = "_"
    /\ \A i \in 1..(Len(s) - 1) : IsAlnum(s[i])

\* isValid without the decode of the random field
isValid_SkipsRandom(id) ==
    IF Len(id) = 0 THEN FALSE
    ELSE LET parsed == parse(id)
         IN  IF IsError(parsed) THEN FALSE
             ELSE IF parsed[1] # << >> /\ ~IsAlnumThenUnderscore(parsed[1]) THEN FALSE
             ELSE IF IsNumError(decode(parsed[2])) THEN FALSE
             ELSE TRUE

\* Ashid.isValid(id)
isValid(id) ==
    IF Len(id) = 0 THEN FALSE
    ELSE LET parsed == parse(id)
         IN  IF IsError(parsed) THEN FALSE
             ELSE IF parsed[1] # << >> /\ ~IsAlnumThenUnderscore(parsed[1]) THEN FALSE
             ELSE IF IsNumError(decode(parsed[2])) THEN FALSE
             ELSE IF IsNumError(decode(parsed[3])) THEN FALSE
             ELSE TRUE

\* normalize rebuilding the identifier without its prefix
normalize_DropsPrefix(id) ==
    LET parsed == parse(id)
    IN  IF IsError(parsed) THEN parsed
        ELSE LET ts  == decode(parsed[2])
                 rnd == decodeBigInt(parsed[3])
             IN  IF IsNumError(ts) THEN DecodeErrorOf(ts)
                 ELSE IF IsNumError(rnd) THEN DecodeErrorOf(rnd)
                 ELSE create(Undefined, Number(ts), BigInt(rnd))

\* Ashid.normalize(id)
normalize(id) ==
    LET parsed == parse(id)
    IN  IF IsError(parsed) THEN parsed
        ELSE LET ts  == decode(parsed[2])
                 rnd == decodeBigInt(parsed[3])
                 normalizedPrefix ==
                     IF parsed[1] # << >> THEN ToLowerCase(parsed[1]) ELSE Undefined
             IN  IF IsNumError(ts) THEN DecodeErrorOf(ts)
                 ELSE IF IsNumError(rnd) THEN DecodeErrorOf(rnd)
                 ELSE create(normalizedPrefix, Number(ts), BigInt(rnd))

(***************************************************************************)
(* The Java port: EncoderBase32Crockford and Ashid.  A long is a record of *)
(* type "long" with the fields of a numeric argument; a method that        *)
(* returns a long and throws yields Thrown(message).                       *)
(***************************************************************************)
Long(n) == [type |-> "long", neg |-> FALSE, mag |-> n, frac |-> FALSE]

Thrown(e) == [type |-> "thrown", neg |-> FALSE, mag |-> e, frac |-> FALSE]

TwoPow63 == <<92233, 7203685, 4775808>>

RECURSIVE ShiftRight7(_, _)
\* n >> (7 * k)
ShiftRight7(n, k) == IF k = 0 THEN n ELSE ShiftRight7(DivMod(n, 128).q, k - 1)

RECURSIVE Low7s(_, _)
\* the k low groups of 7 bits of n
Low7s(n, k) ==
    IF k = 0 THEN Zero
    ELSE MulAdd(Low7s(DivMod(n, 128).q, k - 1), 128, DivMod(n, 128).r)

RECURSIVE Low7sInverted(_, _)
\* the k low groups of 7 bits of n, every bit inverted
Low7sInverted(n, k) ==
    IF k = 0 THEN Zero
    ELSE MulAdd(Low7sInverted(DivMod(n, 128).q, k - 1), 128,
                127 - DivMod(n, 128).r)

\* the long that 64-bit two's complement arithmetic leaves of the integer n:
\* bit 63 is the sign, and a negative long has the magnitude 2^63 - (the low
\* 63 bits)
ToLong(n) ==
    IF BigLess(n, TwoPow63) THEN Long(n)
    ELSE IF DivMod(ShiftRight7(n, 9), 2).r = 0 THEN Long(Low7s(n, 9))
    ELSE Negated(Long(MulAdd(Low7sInverted(n, 9), 1, 1)))

\* private static final String ALPHABET
ALPHABET ==
    <<"0", "1", "2", "3", "4", "5", "6", "7", "8", "9",
      "a", "b", "c", "d", "e", "f", "g", "h", "j", "k",
      "m", "n", "p", "q", "r", "s", "t", "v", "w", "x", "y", "z">>

PADDING_LENGTH == 13

RECURSIVE Java_encodeRecursive(_)
\* encodeRecursive(long n), n >= 0
Java_encodeRecursive(n) ==
    IF n = Zero THEN <<"0">>
    ELSE LET remainder == DivMod(n, 32).r
             quotient  == DivMod(n, 32).q
         IN  IF quotient = Zero THEN <<ALPHABET[remainder + 1]>>
             ELSE Append(Java_encodeRecursive(quotient), ALPHABET[remainder + 1])

\* encode(long n, boolean padded)
Java_encode(n, padded) ==
    IF IsBelowZero(n) THEN Java_ErrEncode
    ELSE LET encoded == Java_encodeRecursive(n.mag)
         IN  IF padded THEN PadStart(encoded, PADDING_LENGTH, "0") ELSE encoded

\* The switch of the Java decodeChar: Java_decodeCases[k + 1] holds the case
\* labels that return k
Java_decodeCases ==
    <<{"0", "o"}, {"1", "i", "l"}, {"2"}, {"3"}, {"4"}, {"5"}, {"6"}, {"7"},
      {"8"}, {"9"}, {"a"}, {"b"}, {"c"}, {"d"}, {"e"}, {"f"}, {"g"}, {"h"},
      {"j"}, {"k"}, {"m"}, {"n"}, {"p"}, {"q"}, {"r"}, {"s"}, {"t"},
      {"u", "v"}, {"w"}, {"x"}, {"y"}, {"z"}>>

\* decodeChar(char c)
Java_decodeChar(c) ==
    IF \E k \in DOMAIN Java_decodeCases : c \in Java_decodeCases[k]
    THEN (CHOOSE k \in DOMAIN Java_decodeCases : c \in Java_decodeCases[k]) - 1
    ELSE 0 - 1

RECURSIVE Java_decodeLoop(_, _, _)
\* the for loop of decode from index i (1-based) on, with result kept as
\* the integer that result * 32 + value gives without overflow
Java_decodeLoop(normalized, i, result) ==
    IF i > Len(normalized) THEN result
    ELSE LET value == Java_decodeChar(normalized[i])
         IN  IF value = 0 - 1 THEN NumErrDecodeChar
             ELSE Java_decodeLoop(normalized, i + 1, MulAdd(result, 32, value))

\* decode(String str): long; the long that the loop's 64-bit arithmetic
\* leaves is taken at the end (wrapping commutes with * and +)
Java_decode(str) ==
    IF str = Undefined \/ str = << >> THEN Thrown(ErrDecodeEmpty)
    ELSE LET exact == Java_decodeLoop(ToLowerCase(str), 1, Zero)
         IN  IF exact = NumErrDecodeChar THEN Thrown(ErrDecodeChar)
             ELSE ToLong(exact)

\* Character.isLetter(c) on the characters the model uses
Character_isLetter(c) == IsLetter(c) \/ c = KelvinSign

\* PREFIX_PATTERN = ^[a-zA-Z]+_?$
MatchesPrefixPattern(s) ==
    LET letters == IF s # << >> /\ s[Len(s)] = "_"
                   THEN SubSeq(s, 1, Len(s) - 1) ELSE s
    IN  /\ letters # << >>
        /\ \A i \in DOMAIN letters : IsLetter(letters[i])

\* the prefix validation of the Java create: null when no prefix is given
Java_normalizedPrefix(prefix) ==
    IF prefix # Undefined /\ prefix # << >>
    THEN LET withUnderscore == ReplaceTrailingDash(prefix)
         IN  IF ~MatchesPrefixPattern(withUnderscore) THEN Java_ErrPrefix
             ELSE ToLowerCase(withUnderscore)
    ELSE Undefined

\* Ashid.create(String prefix, long time, long randomLong)
Java_create(prefix, time, randomLong) ==
    LET normalizedPrefix == Java_normalizedPrefix(prefix)
        hasDelimiter ==
            normalizedPrefix # Undefined /\ normalizedPrefix[Len(normalizedPrefix)] = "_"
        baseId ==
            IF hasDelimiter
            THEN LET randomEncoded ==
                         IF IsAboveZero(time) THEN Java_encode(randomLong, TRUE)
                         ELSE Java_encode(randomLong, FALSE)
                 IN  IF IsAboveZero(time)
                     THEN Java_encode(time, FALSE) \o randomEncoded
                     ELSE randomEncoded
            ELSE PadStart(Java_encode(time, FALSE), 9, "0")
                 \o Java_encode(randomLong, TRUE)
    IN  IF normalizedPrefix = Java_ErrPrefix THEN Java_ErrPrefix
        ELSE IF IsBelowZero(time) THEN ErrTimeNegative
        ELSE IF IsAbove(time, MAX_TIMESTAMP) THEN ErrTimeTooLarge
        ELSE IF IsBelowZero(randomLong) THEN ErrRandomNegative
        ELSE (IF normalizedPrefix # Undefined THEN normalizedPrefix ELSE << >>)
             \o baseId

RECURSIVE Java_scanPrefix(_, _, _)
\* the first pass of the Java parse from index i (0-based) on: its last
\* branch breaks and leaves prefixLength as counted
Java_scanPrefix(id, i, prefixLength) ==
    IF i >= Len(id) THEN [prefixLength |-> prefixLength, hasDelimiter |-> FALSE]
    ELSE IF Character_isLetter(id[i + 1])
    THEN Java_scanPrefix(id, i + 1, prefixLength + 1)
    ELSE IF id[i + 1] \in {"_", "-"} /\ prefixLength > 0
    THEN [prefixLength |-> prefixLength + 1, hasDelimiter |-> TRUE]
    ELSE [prefixLength |-> prefixLength, hasDelimiter |-> FALSE]

\* the limit put on the prefix of an identifier without delimiter
Java_limitPrefix(id, scan) ==
    IF ~scan.hasDelimiter /\ Len(id) > 22
    THEN IF \A i \in 1..(Len(id) - 22) : Character_isLetter(id[i])
         THEN Len(id) - 22 ELSE 0
    ELSE scan.prefixLength

\* Ashid.parse(String id): <<prefix, encodedTimestamp, encodedRandom>>
Java_parse(id) ==
    IF id = Undefined \/ Len(id) = 0 THEN ErrParseEmpty
    ELSE
    LET scan         == Java_scanPrefix(id, 0, 0)
        hasDelimiter == scan.hasDelimiter
        prefixLength == Java_limitPrefix(id, scan)
        prefix       == ReplaceTrailingDash(SubstringTo(id, prefixLength))
        baseId       == SubstringFrom(id, prefixLength)
    IN  IF Len(baseId) = 0 THEN Java_ErrParseNoBase
        ELSE IF hasDelimiter
        THEN IF Len(baseId) <= 13
             THEN <<prefix, <<"0">>, baseId>>
             ELSE <<prefix, SubstringTo(baseId, Len(baseId) - 13),
                    SubstringFrom(baseId, Len(baseId) - 13)>>
        ELSE IF Len(baseId) # 22 THEN Java_ErrParseLength
        ELSE <<prefix, SubstringTo(baseId, 9), SubstringFrom(baseId, 9)>>

\* Ashid.prefix(String id)
Java_prefix(id) ==
    LET parsed == Java_parse(id) IN IF IsError(parsed) THEN parsed ELSE parsed[1]

\* Ashid.timestamp(String id): long
Java_timestamp(id) ==
    LET parsed == Java_parse(id)
    IN  IF IsError(parsed) THEN Thrown(parsed) ELSE Java_decode(parsed[2])

\* Ashid.random(String id): long
Java_random(id) ==
    LET parsed == Java_parse(id)
    IN  IF IsError(parsed) THEN Thrown(parsed) ELSE Java_decode(parsed[3])

(***************************************************************************)
(* Callers.  A caller creates identifiers from sample arguments, hands in  *)
(* strings of its own, damages copies of created identifiers the way the   *)
(* normalize tests do, and applies the operations of Ashid to them.        *)
(***************************************************************************)
TwoPow64 == <<184467, 4407370, 9551616>>

TwoPow65 == <<368934, 8814741, 9103232>>

\* 1609459200000, the timestamp of the tests
TestTime == <<160945, 9200000>>

\* the number of damaging edits applied to one identifier
MaxEdits == 2

\* 10 * 32^8, the first timestamp whose 9 symbols begin with a letter
FirstLetterTime == <<1099511, 6277760>>

\* prefixes, timestamps and random values handed to the Java create
JavaPrefixes ==
    {Undefined, << >>, <<"u">>, <<"U", "s", "e", "r">>, <<"u", "_">>,
     <<"u", "-">>, <<"u", "1">>}

JavaTimes ==
    {Long(Zero), Long(<<1000>>), Long(TestTime),
     Long(MulAdd(FirstLetterTime, 1, 0 - 1)), Long(FirstLetterTime),
     Long(MAX_TIMESTAMP), Long(MulAdd(MAX_TIMESTAMP, 1, 1)),
     Negated(Long(<<1>>))}

JavaRandoms ==
    {Long(Zero), Long(<<2000>>), Long(MulAdd(TwoPow53, 1, 0 - 1)),
     Long(MulAdd(TwoPow63, 1, 0 - 1)), Negated(Long(<<1>>))}

Prefixes ==
    {Undefined, << >>, <<"_">>, <<"A", "b">>, <<"a", "-", "b", "_">>, <<"u", "1">>}

Times ==
    {Number(Zero), Number(<<31>>), Number(<<32>>),
     Number(TestTime), Number(MAX_TIMESTAMP),
     Number(MulAdd(MAX_TIMESTAMP, 1, 1)), Negated(Number(<<1>>)),
     PlusHalf(Number(<<31>>)), NaN}

Randoms ==
    {BigInt(Zero), BigInt(<<31>>), BigInt(<<32>>),
     BigInt(MulAdd(TwoPow64, 1, 0 - 1)), BigInt(TwoPow65),
     Negated(BigInt(<<1>>)), Number(<<12345>>), NaN}

SecondTimes ==
    {Number(Zero), Number(<<1>>), Number(<<31>>), Number(<<32>>),
     Number(MAX_TIMESTAMP)}

SecondRandoms ==
    {BigInt(Zero), BigInt(<<31>>), BigInt(<<32>>), BigInt(MulAdd(TwoPow64, 1, 0 - 1))}

\* 8 random bytes
RandomBuffers ==
    {<<0, 0, 0, 0, 0, 0, 0, 0>>, <<0, 0, 0, 1, 0, 0, 0, 0>>,
     <<128, 0, 0, 0, 0, 0, 0, 1>>, <<255, 255, 255, 255, 255, 255, 255, 255>>}

Create4Randoms == SecondRandoms \cup {Negated(BigInt(<<1>>)), NaN}

EncodeNumbers ==
    {Number(Zero), Number(<<1>>), Number(<<27>>), Number(<<32>>),
     Number(<<12345>>), Number(TestTime), Number(TwoPow64),
     PlusHalf(Number(<<31>>)), Negated(Number(<<1>>)), NaN}

EncodeBigInts ==
    {BigInt(Zero), BigInt(<<1>>), BigInt(<<27>>), BigInt(<<32>>),
     BigInt(TwoPow53), BigInt(MulAdd(TwoPow64, 1, 0 - 1)), BigInt(TwoPow65),
     Negated(BigInt(<<1>>))}

TypedTags == {<< >>, <<"A", "b">>}

TypedDelimiters == {<< >>, <<"_">>, <<"-">>}

TypedHeadChars == {"0", "z", "O"}

TypedHeadLengths ==
    {0, 1, TIMESTAMP_ENCODED_LENGTH, TIMESTAMP_ENCODED_LENGTH + 1,
     RANDOM_ENCODED_LENGTH}

TypedTailChars == {"0", "Z", "!", " ", KelvinSign}

TypedTailLengths == {0, 1, RANDOM_ENCODED_LENGTH}

\* 0-based index of the first character after the tag delimiter, 0 if the
\* string has no delimiter
RECURSIVE BaseStart(_, _)
BaseStart(s, i) ==
    IF i > Len(s) THEN 0
    ELSE IF s[i] \in {"_", "-"} THEN i
    ELSE BaseStart(s, i + 1)

\* every base symbol of s that is in from replaced by to
ReplaceInBase(s, from, to) ==
    [i \in DOMAIN s |->
        IF i > BaseStart(s, 1) /\ s[i] \in from THEN to ELSE s[i]]

EditKinds == {"upper", "upperFirst", "dash", "0O", "1l", "1I", "vU"}

\* the damaged copy of s
Damaged(s, kind) ==
    CASE kind = "upper"      -> ToUpperCase(s)
      [] kind = "upperFirst" -> [s EXCEPT ![1] = ToUpperChar(s[1])]
      [] kind = "dash"       -> [i \in DOMAIN s |-> IF s[i] = "_" THEN "-" ELSE s[i]]
      [] kind = "0O"         -> ReplaceInBase(s, {"0"}, "O")
      [] kind = "1l"         -> ReplaceInBase(s, {"1"}, "l")
      [] kind = "1I"         -> ReplaceInBase(s, {"1"}, "I")
      [] kind = "vU"         -> ReplaceInBase(s, {"v", "V"}, "U")

VARIABLES
    op,           \* the operation applied last
    kind,         \* where the string in id comes from
    prefix,       \* arguments of the last create / create4
    time,
    randomLong,
    time2,        \* arguments of the second create on the same prefix
    randomLong2,
    id,           \* the identifier string at hand (or the Error thrown)
    id2,          \* the identifier of the second create
    orig,         \* the created identifier of which id is a damaged copy
    edits,        \* number of damaging edits applied to orig
    arg,          \* the argument of the last normalize
    res,          \* the result of the last parse/prefix/timestamp/random/isValid
                  \* or decode/decodeBigInt
    num,          \* arguments of the last encode / encodeBigInt
    padded,
    env,          \* what the execution context of secureRandomLong offers
    source,       \* the source the last secureRandomLong returned from
    log           \* what console.warn has been called with

vars ==
    <<op, kind, prefix, time, randomLong, time2, randomLong2, id, id2, orig,
      edits, arg, res, num, padded, env, source, log>>

Init ==
    /\ op = "init"
    /\ kind = "none"
    /\ prefix = Undefined
    /\ time = Number(Zero)
    /\ randomLong = BigInt(Zero)
    /\ time2 = Number(Zero)
    /\ randomLong2 = BigInt(Zero)
    /\ id = << >>
    /\ id2 = << >>
    /\ orig = << >>
    /\ edits = 0
    /\ arg = << >>
    /\ res = << >>
    /\ num = Number(Zero)
    /\ padded = FALSE
    /\ env = [nodeCrypto |-> TRUE, webCrypto |-> TRUE]
    /\ source = "none"
    /\ log = << >>

\* id holds a string an operation of Ashid can be applied to
HasString ==
    /\ op \in {"create", "create4", "type", "damage", "normalize"}
    /\ kind # "damagedField"
    /\ ~IsError(id)

\* id holds a string that decode can be applied to
HasField ==
    /\ \/ op \in {"encode", "encodeBigInt", "type"}
       \/ op = "damage" /\ kind = "damagedField"
    /\ ~IsError(id)

Create(p, t, r) ==
    /\ op = "init"
    /\ op' = "create"
    /\ kind' = "created"
    /\ prefix' = p
    /\ time' = t
    /\ randomLong' = r
    /\ id' = create(p, t, r)
    /\ orig' = id'
    /\ UNCHANGED <<env, source, log, num, padded, time2, randomLong2, id2, edits, arg, res>>

CreateSecond(t, r) ==
    /\ op = "create"
    /\ ~IsError(id)
    /\ op' = "create2"
    /\ time2' = t
    /\ randomLong2' = r
    /\ id2' = create(prefix, t, r)
    /\ UNCHANGED <<env, source, log, num, padded, kind, prefix, time, randomLong, id, orig, edits, arg, res>>

Create4(p, r1, r2) ==
    /\ op = "init"
    /\ op' = "create4"
    /\ kind' = "created4"
    /\ prefix' = p
    /\ randomLong' = r1
    /\ randomLong2' = r2
    /\ id' = create4(p, r1, r2)
    /\ orig' = id'
    /\ UNCHANGED <<env, source, log, num, padded, time, time2, id2, edits, arg, res>>

Type(x) ==
    /\ op = "init"
    /\ op' = "type"
    /\ kind' = "typed"
    /\ id' = x
    /\ UNCHANGED <<env, source, log, num, padded, prefix, time, randomLong, time2, randomLong2, id2, orig,
                   edits, arg, res>>

Encode(v, p) ==
    /\ op = "init"
    /\ op' = "encode"
    /\ kind' = "encoded"
    /\ num' = v
    /\ padded' = p
    /\ id' = encode(v, p)
    /\ orig' = id'
    /\ UNCHANGED <<env, source, log, prefix, time, randomLong, time2, randomLong2, id2, edits,
                   arg, res>>

EncodeBigInt(v, p) ==
    /\ op = "init"
    /\ op' = "encodeBigInt"
    /\ kind' = "encoded"
    /\ num' = v
    /\ padded' = p
    /\ id' = encodeBigInt(v, p)
    /\ orig' = id'
    /\ UNCHANGED <<env, source, log, prefix, time, randomLong, time2, randomLong2, id2, edits,
                   arg, res>>

Damage(k) ==
    /\ op \in {"create", "encode", "encodeBigInt", "damage"}
    /\ ~IsError(id)
    /\ edits < MaxEdits
    /\ Damaged(id, k) # id
    /\ op' = "damage"
    /\ kind' = IF kind \in {"encoded", "damagedField"}
               THEN "damagedField" ELSE "damaged"
    /\ id' = Damaged(id, k)
    /\ edits' = edits + 1
    /\ UNCHANGED <<env, source, log, num, padded, prefix, time, randomLong, time2, randomLong2, id2, orig,
                   arg, res>>

Parse ==
    /\ HasString
    /\ op' = "parse"
    /\ res' = parse(id)
    /\ UNCHANGED <<env, source, log, num, padded, kind, prefix, time, randomLong, time2, randomLong2, id, id2,
                   orig, edits, arg>>

Prefix ==
    /\ HasString
    /\ op' = "prefix"
    /\ res' = prefixOf(id)
    /\ UNCHANGED <<env, source, log, num, padded, kind, prefix, time, randomLong, time2, randomLong2, id, id2,
                   orig, edits, arg>>

Timestamp ==
    /\ HasString
    /\ op' = "timestamp"
    /\ res' = timestamp(id)
    /\ UNCHANGED <<env, source, log, num, padded, kind, prefix, time, randomLong, time2, randomLong2, id, id2,
                   orig, edits, arg>>

Random ==
    /\ HasString
    /\ op' = "random"
    /\ res' = random(id)
    /\ UNCHANGED <<env, source, log, num, padded, kind, prefix, time, randomLong, time2, randomLong2, id, id2,
                   orig, edits, arg>>

IsValid ==
    /\ HasString
    /\ op' = "isValid"
    /\ res' = isValid(id)
    /\ UNCHANGED <<env, source, log, num, padded, kind, prefix, time, randomLong, time2, randomLong2, id, id2,
                   orig, edits, arg>>

Decode ==
    /\ HasField
    /\ op' = "decode"
    /\ res' = decode(id)
    /\ UNCHANGED <<env, source, log, num, padded, kind, prefix, time, randomLong, time2,
                   randomLong2, id, id2, orig, edits, arg>>

DecodeBigInt ==
    /\ HasField
    /\ op' = "decodeBigInt"
    /\ res' = decodeBigInt(id)
    /\ UNCHANGED <<env, source, log, num, padded, kind, prefix, time, randomLong, time2,
                   randomLong2, id, id2, orig, edits, arg>>

\* secureRandomLong() where the context offers nodeCrypto / webCrypto and the
\* source consulted delivers the 8 bytes of buffer (the fallback makes them up
\* from two Math.floor(Math.random() * 0x100000000))
SecureRandomLong(nodeCrypto, webCrypto, buffer) ==
    /\ op = "init"
    /\ op' = "secureRandomLong"
    /\ env' = [nodeCrypto |-> nodeCrypto, webCrypto |-> webCrypto]
    /\ source' = secureRandomSource(nodeCrypto, webCrypto)
    /\ log' = IF source' = "fallback" THEN Append(log, WarnNotSecure) ELSE log
    /\ res' = BigInt(readBigUInt64BE(buffer, Zero))
    /\ UNCHANGED <<num, padded, kind, prefix, time, randomLong, time2,
                   randomLong2, id, id2, orig, edits, arg>>

EncoderIsValid ==
    /\ HasField
    /\ op' = "encoderIsValid"
    /\ res' = encoderIsValid(id)
    /\ UNCHANGED <<env, source, log, num, padded, kind, prefix, time, randomLong, time2,
                   randomLong2, id, id2, orig, edits, arg>>

Normalize ==
    /\ HasString
    /\ op' = "normalize"
    /\ kind' = IF op = "normalize" THEN "normalized" ELSE kind
    /\ arg' = id
    /\ id' = normalize(id)
    /\ UNCHANGED <<env, source, log, num, padded, prefix, time, randomLong, time2, randomLong2, id2, orig,
                   edits, res>>

\* a caller of the Java port: Ashid.create, then one of the readers
JavaCreate(p, t, r) ==
    /\ op = "init"
    /\ op' = "javaCreate"
    /\ kind' = "java"
    /\ prefix' = p
    /\ time' = t
    /\ randomLong' = r
    /\ id' = Java_create(p, t, r)
    /\ orig' = id'
    /\ UNCHANGED <<env, source, log, num, padded, time2, randomLong2, id2, edits, arg, res>>

\* id holds a string the Java create returned
HasJavaString == op = "javaCreate" /\ ~IsError(id)

JavaParse ==
    /\ HasJavaString
    /\ op' = "javaParse"
    /\ res' = Java_parse(id)
    /\ UNCHANGED <<env, source, log, num, padded, kind, prefix, time, randomLong, time2, randomLong2, id, id2,
                   orig, edits, arg>>

JavaPrefix ==
    /\ HasJavaString
    /\ op' = "javaPrefix"
    /\ res' = Java_prefix(id)
    /\ UNCHANGED <<env, source, log, num, padded, kind, prefix, time, randomLong, time2, randomLong2, id, id2,
                   orig, edits, arg>>

JavaTimestamp ==
    /\ HasJavaString
    /\ op' = "javaTimestamp"
    /\ res' = Java_timestamp(id)
    /\ UNCHANGED <<env, source, log, num, padded, kind, prefix, time, randomLong, time2, randomLong2, id, id2,
                   orig, edits, arg>>

JavaRandom ==
    /\ HasJavaString
    /\ op' = "javaRandom"
    /\ res' = Java_random(id)
    /\ UNCHANGED <<env, source, log, num, padded, kind, prefix, time, randomLong, time2, randomLong2, id, id2,
                   orig, edits, arg>>

Next ==
    \/ \E p \in Prefixes, t \in Times, r \in Randoms : Create(p, t, r)
    \/ \E t \in SecondTimes, r \in SecondRandoms : CreateSecond(t, r)
    \/ \E p \in Prefixes, r1 \in Create4Randoms, r2 \in Create4Randoms :
            Create4(p, r1, r2)
    \/ \E tg \in TypedTags, d \in TypedDelimiters,
          c1 \in TypedHeadChars, n1 \in TypedHeadLengths,
          c2 \in TypedTailChars, n2 \in TypedTailLengths :
            Type(tg \o d \o Repeat(c1, n1) \o Repeat(c2, n2))
    \/ \E v \in EncodeNumbers, p \in BOOLEAN : Encode(v, p)
    \/ \E v \in EncodeBigInts, p \in BOOLEAN : EncodeBigInt(v, p)
    \/ \E nodeCrypto \in BOOLEAN, webCrypto \in BOOLEAN, buffer \in RandomBuffers :
            SecureRandomLong(nodeCrypto, webCrypto, buffer)
    \/ \E k \in EditKinds : Damage(k)
    \/ Parse
    \/ Prefix
    \/ Timestamp
    \/ Random
    \/ IsValid
    \/ Decode
    \/ DecodeBigInt
    \/ EncoderIsValid
    \/ Normalize
    \/ \E p \in JavaPrefixes, t \in JavaTimes, r \in JavaRandoms : JavaCreate(p, t, r)
    \/ JavaParse
    \/ JavaPrefix
    \/ JavaTimestamp
    \/ JavaRandom

Spec == Init /\ [][Next]_vars

(***************************************************************************)
(* Properties.                                                             *)
(***************************************************************************)
\* t is an integer timestamp in [0, 32^9 - 1]
InRangeTime(t) ==
    /\ t.type = "number"
    /\ ~IsNaN(t)
    /\ ~t.neg
    /\ ~t.frac
    /\ BigLeq(t.mag, MAX_TIMESTAMP)

\* r is an integer random value >= 0
NonNegativeRandom(r) == ~IsNaN(r) /\ ~r.neg /\ ~r.frac

\* r is an integer random value in [0, 2^64)
Random64(r) == NonNegativeRandom(r) /\ BigLess(r.mag, TwoPow64)

\* the run of ASCII letters s starts with
RECURSIVE LeadingLetters(_)
LeadingLetters(s) ==
    IF s = << >> \/ ~IsLetter(s[1]) THEN << >>
    ELSE <<s[1]>> \o LeadingLetters(Tail(s))

\* s starts with one or more letters followed by '_' or '-'
HasLetterTag(s) ==
    LET letters == LeadingLetters(s)
    IN  /\ letters # << >>
        /\ Len(s) > Len(letters)
        /\ s[Len(letters) + 1] \in {"_", "-"}

\* the raw tag p has at least one ASCII letter and no digit
LetterOnlyTag(p) ==
    /\ p # Undefined
    /\ \E i \in DOMAIN p : IsLetter(p[i])
    /\ \A i \in DOMAIN p : p[i] \notin Range(DigitChars)

\* (t1, r1) < (t2, r2) in tuple order
TupleLess(t1, r1, t2, r2) ==
    \/ BigLess(t1.mag, t2.mag)
    \/ t1.mag = t2.mag /\ BigLess(r1.mag, r2.mag)

\* C1: parse of every identifier that create returned for an integer
\* timestamp in [0, 32^9 - 1] and a random value >= 0 succeeds, its timestamp
\* field decodes to the timestamp and its random field to the random value.
C1_ParseInvertsCreate ==
    (op = "parse" /\ kind = "created"
        /\ InRangeTime(time) /\ NonNegativeRandom(randomLong))
    => /\ ~IsError(res)
       /\ decode(res[2]) = time.mag
       /\ decodeBigInt(res[3]) = randomLong.mag

\* C2: isValid is true of every identifier that create returned for a
\* timestamp in [0, 32^9 - 1] and a random value in [0, 2^64), and of every
\* identifier that create4 returned for two random values in [0, 2^64).
C2_CreatedIsValid ==
    /\ (op = "isValid" /\ kind = "created"
            /\ InRangeTime(time) /\ Random64(randomLong))
       => res = TRUE
    /\ (op = "isValid" /\ kind = "created4"
            /\ Random64(randomLong) /\ Random64(randomLong2))
       => res = TRUE

\* C3: for one tag and one random value in [0, 2^64), the identifier of the
\* smaller timestamp is the lexicographically smaller string.
C3_TimeSortable ==
    (op = "create2"
        /\ InRangeTime(time) /\ InRangeTime(time2)
        /\ BigLess(time.mag, time2.mag)
        /\ Random64(randomLong) /\ randomLong2 = randomLong)
    => StrLess(id, id2)

\* C4: for one tag and one timestamp in [0, 32^9 - 1], the identifier of the
\* smaller random value in [0, 2^64) is the lexicographically smaller string.
C4_RandomSortable ==
    (op = "create2"
        /\ InRangeTime(time) /\ time2 = time
        /\ Random64(randomLong) /\ Random64(randomLong2)
        /\ BigLess(randomLong.mag, randomLong2.mag))
    => StrLess(id, id2)

\* C5: for identifiers created without a tag, from timestamps in
\* [0, 32^9 - 1] and random values in [0, 2^64), the string order is the
\* order of the (timestamp, random) pairs.
C5_UntaggedOrderIsTupleOrder ==
    (op = "create2" /\ prefix = Undefined
        /\ InRangeTime(time) /\ InRangeTime(time2)
        /\ Random64(randomLong) /\ Random64(randomLong2))
    => (StrLess(id, id2) <=> TupleLess(time, randomLong, time2, randomLong2))

C5_Witness ==
    /\ op = "create2" /\ prefix = Undefined
    /\ InRangeTime(time) /\ InRangeTime(time2)
    /\ Random64(randomLong) /\ Random64(randomLong2)
    /\ BigLess(time.mag, time2.mag)
    /\ BigLess(randomLong2.mag, randomLong.mag)
    /\ StrLess(id, id2)

C7_NormalizeIdempotent ==
    (op = "normalize" /\ ~IsError(id)) => normalize(id) = id

C7_Witness ==
    /\ op = "normalize" /\ ~IsError(id)
    /\ arg # id
    /\ Len(arg) = ASHID4_BASE_LENGTH

\* C8: normalize of a string that isValid accepts does not throw, and isValid
\* accepts its result.
C8_NormalizeDefinedOnValid ==
    (op = "normalize" /\ isValid(arg)) => (~IsError(id) /\ isValid(id))

\* C9: normalize of a damaged copy (letter case, '-' for '_', lookalikes for
\* base symbols) of a created identifier returns the created identifier.
C9_NormalizeRepairs ==
    (op = "normalize" /\ kind = "damaged") => id = orig

\* C10: when normalize succeeds on a string that starts with letters and a
\* delimiter, the result has the timestamp and the random value of the
\* string, and its prefix is the lower-cased letters followed by '_'.
C10_NormalizePreservesValues ==
    (op = "normalize" /\ ~IsError(id) /\ HasLetterTag(arg))
    => /\ timestamp(id) = timestamp(arg)
       /\ random(id) = random(arg)
       /\ prefixOf(id) = Append(ToLowerCase(LeadingLetters(arg)), "_")

C10_Witness ==
    /\ op = "normalize" /\ ~IsError(id) /\ HasLetterTag(arg)
    /\ arg # id
    /\ timestamp(arg) # Zero
    /\ random(arg) # Zero

\* C11: create validates its numeric inputs all-or-nothing: it raises the
\* error citing the lower bound when floor(timestamp) < 0, the error citing
\* the maximum when floor(timestamp) > 35184372088831, the error for a
\* negative random value when the random value is negative, and returns an
\* identifier in every other case; 35184372088831 is accepted and
\* 35184372088832 is rejected.
C11_CreateValidation ==
    op = "create" =>
        LET tooSmall == IsBelowZero(MathFloor(time))
            tooLarge == IsAbove(MathFloor(time), MAX_TIMESTAMP)
            negative == ~BigIntThrows(randomLong)
                        /\ IsBelowZero(ToRandomBigInt(randomLong))
        IN  /\ tooSmall => id = ErrTimeNegative
            /\ tooLarge => id = ErrTimeTooLarge
            /\ (~tooSmall /\ ~tooLarge /\ negative) => id = ErrRandomNegative
            /\ (~tooSmall /\ ~tooLarge /\ ~negative) => ~IsError(id)
            /\ (time = Number(MAX_TIMESTAMP) /\ ~negative) => ~IsError(id)
            /\ time = Number(MulAdd(MAX_TIMESTAMP, 1, 1)) => id = ErrTimeTooLarge

\* the raw tag p is no tag: undefined, empty, or without any letter or digit
NoTag(p) == p = Undefined \/ \A i \in DOMAIN p : ~IsAlnum(p[i])

\* C12: without a tag (tag undefined, empty, or without any letter or digit),
\* for every integer timestamp t in [0, 32^9 - 1] and random value r in
\* [0, 2^64), create returns exactly 22 symbols: encode(t) left-padded with
\* '0' to 9 symbols, then encode(r) left-padded with '0' to 13 symbols; a
\* timestamp of 0 is written as nine '0' symbols, never omitted.
C12_UntaggedFixedLayout ==
    (op = "create" /\ NoTag(prefix) /\ InRangeTime(time) /\ Random64(randomLong)) =>
        /\ ~IsError(id)
        /\ Len(id) = 22
        /\ SubSeq(id, 1, 9) = PadStart(encodeRecursive(time.mag), 9, "0")
        /\ SubSeq(id, 10, 22) = PadStart(encodeBigIntRecursive(randomLong.mag), 13, "0")
        /\ decodeBigInt(SubSeq(id, 1, 9)) = time.mag
        /\ decodeBigInt(SubSeq(id, 10, 22)) = randomLong.mag
        /\ time.mag = Zero => SubSeq(id, 1, 9) = Repeat("0", 9)

C12_Witness ==
    /\ op = "create"
    /\ prefix = <<"_">>
    /\ time = Number(Zero)
    /\ randomLong = BigInt(MulAdd(TwoPow64, 1, 0 - 1))
    /\ id = Repeat("0", 9) \o <<"f">> \o Repeat("z", 12)

\* the letters and digits of the raw tag p, in order
RECURSIVE LettersAndDigits(_)
LettersAndDigits(p) ==
    IF p = << >> THEN << >>
    ELSE (IF IsAlnum(p[1]) THEN <<p[1]>> ELSE << >>) \o LettersAndDigits(Tail(p))

\* the written tag of the raw tag p: its letters and digits lower-cased, then
\* one '_'; empty when p is no tag
WrittenTag(p) ==
    IF NoTag(p) THEN << >>
    ELSE [i \in 1..Len(LettersAndDigits(p)) |-> ToLowerChar(LettersAndDigits(p)[i])]
         \o <<"_">>

C13_WitnessZero ==
    /\ op = "create"
    /\ prefix = <<"A", "b">>
    /\ time = Number(Zero)
    /\ randomLong = BigInt(Zero)
    /\ id = <<"a", "b", "_", "0">>

C15_PrefixOfCreated ==
    (op = "prefix" /\ kind = "created" /\ id = orig
                   /\ InRangeTime(time) /\ NonNegativeRandom(randomLong)) =>
        res = WrittenTag(prefix)

\* s with the delimiter that follows its leading letters written as '_'
Underscored(s) == [s EXCEPT ![Len(LeadingLetters(s)) + 1] = "_"]

\* C16: parse treats '-' and '_' as the same tag delimiter: for a string s
\* that starts with one or more letters followed by '-', parse(s) is
\* parse(s') where s' has that '-' replaced by '_' (the same fields or an
\* error in both cases); a returned prefix that is not empty ends in '_' and
\* never contains '-'.
C16_DashEqualsUnderscore ==
    (op = "parse" /\ HasLetterTag(id)) =>
        /\ id[Len(LeadingLetters(id)) + 1] = "-" => res = parse(Underscored(id))
        /\ ~IsError(res) =>
                /\ res[1] # << >>
                /\ res[1][Len(res[1])] = "_"
                /\ "-" \notin Range(res[1])

C16_Witness ==
    /\ op = "parse"
    /\ id = <<"A", "b", "-", "0", "Z">>
    /\ res = <<(<<"A", "b", "_">>), (<<"0">>), (<<"0", "Z">>)>>

C17_WitnessEmpty == op = "parse" /\ id = << >> /\ res = ErrParseEmpty

C17_WitnessLength == op = "parse" /\ id = Repeat("0", 10) /\ res = ErrParseLength

\* C18: create4(tag, r1, r2) is the normalized tag (possibly empty) followed
\* by encode(r1) left-padded to 13 symbols and encode(r2) left-padded to 13
\* symbols, a base of exactly 26 symbols; when the tag is not empty and
\* letter-only, parse of the result returns two 13-symbol fields that decode
\* to r1 and r2; create4 raises an error when r1 or r2 is negative.
C18_Create4Layout ==
    /\ (op = "create4" /\ Random64(randomLong) /\ Random64(randomLong2)) =>
            /\ id = WrittenTag(prefix)
                     \o PadStart(encodeBigIntRecursive(randomLong.mag), 13, "0")
                     \o PadStart(encodeBigIntRecursive(randomLong2.mag), 13, "0")
            /\ Len(id) = Len(WrittenTag(prefix)) + 26
    /\ (op = "create4" /\ ~IsNaN(randomLong) /\ ~IsNaN(randomLong2)
                       /\ (randomLong.neg \/ randomLong2.neg)) =>
            id = ErrRandomsNegative
    /\ (op = "parse" /\ kind = "created4" /\ id = orig /\ LetterOnlyTag(prefix)) =>
            /\ ~IsError(res)
            /\ res[1] = WrittenTag(prefix)
            /\ Len(res[2]) = 13
            /\ Len(res[3]) = 13
            /\ decodeBigInt(res[2]) = randomLong.mag
            /\ decodeBigInt(res[3]) = randomLong2.mag

C18_Witness ==
    /\ op = "parse"
    /\ kind = "created4"
    /\ prefix = <<"A", "b">>
    /\ randomLong = BigInt(<<32>>)
    /\ randomLong2 = BigInt(MulAdd(TwoPow64, 1, 0 - 1))
    /\ id = <<"a", "b", "_">> \o Repeat("0", 11) \o <<"1", "0", "f">> \o Repeat("z", 12)
    /\ res[2] = Repeat("0", 11) \o <<"1", "0">>

\* create4 with a negative random value raises
C18_WitnessNegative ==
    /\ op = "create4"
    /\ randomLong = BigInt(Zero)
    /\ randomLong2 = Negated(BigInt(<<1>>))
    /\ id = ErrRandomsNegative

\* C19: the codec round-trips: decode(encode(n)) == n and
\* decode(encode(n, padded)) == n for every non-negative integer n,
\* decodeBigInt(encodeBigInt(n)) == n and decodeBigInt(encodeBigInt(n, padded))
\* == n for every BigInt n >= 0 up to and beyond 2^64 - 1, and prepending '0'
\* symbols never changes the decoded value.
C19_CodecRoundTrip ==
    /\ (op = "decode" /\ kind = "encoded" /\ num.type = "number" /\ ~num.frac) =>
            res = num.mag
    /\ (op = "decodeBigInt" /\ kind = "encoded" /\ num.type = "bigint") =>
            res = num.mag
    /\ (op = "decode" /\ ~IsNumError(res)) =>
            /\ decode(<<"0">> \o id) = res
            /\ decode(<<"0", "0">> \o id) = res
    /\ (op = "decodeBigInt" /\ ~IsNumError(res)) =>
            /\ decodeBigInt(<<"0">> \o id) = res
            /\ decodeBigInt(<<"0", "0">> \o id) = res

C19_Witness ==
    /\ op = "decodeBigInt"
    /\ kind = "encoded"
    /\ padded
    /\ num = BigInt(MulAdd(TwoPow64, 1, 0 - 1))
    /\ id = <<"f">> \o Repeat("z", 12)
    /\ res = MulAdd(TwoPow64, 1, 0 - 1)

\* decode(encode(1609459200000)) and decode(encode(2^64)) give the number back
C19_WitnessNumber ==
    /\ op = "decode"
    /\ kind = "encoded"
    /\ ~padded
    /\ num \in {Number(TestTime), Number(TwoPow64)}
    /\ res = num.mag

\* s with every lookalike written as the symbol it stands for
Canonical(s) ==
    [i \in DOMAIN s |->
        CASE s[i] \in {"o", "O"} -> "0"
          [] s[i] \in {"i", "I", "l", "L"} -> "1"
          [] s[i] \in {"u", "U"} -> "v"
          [] OTHER -> s[i]]

\* C20: decode is invariant under case and lookalike substitution: for every
\* string s that decode accepts, decode(s) == decode(lowercase(s)) ==
\* decode(uppercase(s)), and writing 'O'/'o' as '0', 'I'/'i'/'L'/'l' as '1' or
\* 'U'/'u' as 'v' leaves the value unchanged; decode('O') is 0, decode('I')
\* and decode('L') are 1, decode('U') and decode('V') are 27.  The same holds
\* for decodeBigInt.
C20_DecodeCaseAndLookalikes ==
    /\ (op = "decode" /\ ~IsNumError(res)) =>
            /\ decode(ToLowerCase(id)) = res
            /\ decode(ToUpperCase(id)) = res
            /\ decode(Canonical(id)) = res
    /\ (op = "decodeBigInt" /\ ~IsNumError(res)) =>
            /\ decodeBigInt(ToLowerCase(id)) = res
            /\ decodeBigInt(ToUpperCase(id)) = res
            /\ decodeBigInt(Canonical(id)) = res
    /\ op \in {"decode", "decodeBigInt"} =>
            /\ id = <<"O">> => res = Zero
            /\ id \in {<<"I">>, <<"L">>} => res = <<1>>
            /\ id \in {<<"U">>, <<"V">>} => res = <<27>>

C20_Witness == op = "decode" /\ id = <<"U">> /\ res = <<27>>

\* decodeBigInt of a damaged copy of encodeBigInt(2^64 - 1, true)
C20_WitnessBigInt ==
    /\ op = "decodeBigInt"
    /\ id = <<"F">> \o Repeat("Z", 12)
    /\ res = MulAdd(TwoPow64, 1, 0 - 1)

\* the characters decodeChar has a case for
Recognized ==
    Range(alphabet) \cup {ToUpperChar(c) : c \in Range(alphabet)}
        \cup {"o", "O", "i", "I", "l", "L", "u", "U"}

\* C21: decode raises an error for the empty string and for every string with
\* at least one character outside the 32 alphabet symbols (either case) and
\* the lookalikes o, i, l, u (either case), '-', '_' and space included, and
\* succeeds on every other string; EncoderBase32Crockford.isValid(s) is true
\* if and only if decode(s) does not raise, and never raises itself.
C21_DecodeRejectsUnrecognized ==
    /\ op \in {"decode", "decodeBigInt"} =>
            (IsNumError(res) <=> (id = << >> \/ \E i \in DOMAIN id : id[i] \notin Recognized))
    /\ op = "encoderIsValid" =>
            /\ res \in BOOLEAN
            /\ res <=> ~IsNumError(decode(id))
            /\ res <=> (id # << >> /\ \A i \in DOMAIN id : id[i] \in Recognized)

\* 0123456789abcdefghjkmnpqrstvwxyz
CrockfordSymbols ==
    <<"0", "1", "2", "3", "4", "5", "6", "7", "8", "9",
      "a", "b", "c", "d", "e", "f", "g", "h", "j", "k",
      "m", "n", "p", "q", "r", "s", "t", "v", "w", "x", "y", "z">>

\* the value of s read as a most-significant-first base-32 numeral over
\* CrockfordSymbols, from the accumulated value acc on
RECURSIVE NumeralValue(_, _)
NumeralValue(s, acc) ==
    IF s = << >> THEN acc
    ELSE NumeralValue(Tail(s), MulAdd(acc, 32, IndexOf(CrockfordSymbols, s[1]) - 1))

\* C22: for every non-negative integer n, encode(n) and encodeBigInt(n) return
\* the most-significant-first base-32 numeral of n over
\* 0123456789abcdefghjkmnpqrstvwxyz, in those lower-case symbols only, with no
\* leading '0' except that 0 encodes to '0'; with padding requested the
\* result is that numeral left-padded with '0' to 13 symbols when shorter and
\* unchanged, never truncated, when it has 13 symbols or more; a negative
\* input raises an error.
C22_EncodeIsBase32Numeral ==
    op \in {"encode", "encodeBigInt"} =>
        /\ (~IsNaN(num) /\ num.neg /\ (num.mag # Zero \/ num.frac)) => IsError(id)
        /\ (~IsNaN(num) /\ ~num.neg /\ ~num.frac) =>
                /\ ~IsError(id)
                /\ \A i \in DOMAIN id : id[i] \in Range(CrockfordSymbols)
                /\ NumeralValue(id, Zero) = num.mag
                /\ num.mag = Zero => id = (IF padded THEN Repeat("0", 13) ELSE <<"0">>)
                /\ ~padded => (Len(id) = 1 \/ id[1] # "0")
                /\ padded => (Len(id) >= 13 /\ (Len(id) > 13 => id[1] # "0"))

C22_Witness ==
    /\ op = "encodeBigInt"
    /\ padded
    /\ num = BigInt(TwoPow65)
    /\ id = <<"1">> \o Repeat("0", 13)

\* encode(12345, true) is '0000000000c1s'
C22_WitnessPadded ==
    /\ op = "encode"
    /\ padded
    /\ num = Number(<<12345>>)
    /\ id = Repeat("0", 10) \o <<"c", "1", "s">>

\* C23: for every input string, the empty string included, Ashid.isValid
\* returns a boolean and never raises, and isValid(id) is true if and only if
\* Ashid.parse(id) succeeds and both returned fields are accepted by
\* EncoderBase32Crockford.decode.
C23_IsValidIsParseAndDecode ==
    op = "isValid" =>
        /\ res \in BOOLEAN
        /\ res <=> /\ ~IsError(parse(id))
                   /\ ~IsNumError(decode(parse(id)[2]))
                   /\ ~IsNumError(decode(parse(id)[3]))

C23_Witness ==
    /\ op = "isValid"
    /\ id = <<"A", "b", "_", "0", "!">>
    /\ parse(id) = <<(<<"A", "b", "_">>), (<<"0">>), (<<"0", "!">>)>>
    /\ res = FALSE

\* isValid('') is false, isValid of 22 '0' symbols is true
C23_WitnessEmpty == op = "isValid" /\ id = << >> /\ res = FALSE

C23_WitnessValid == op = "isValid" /\ id = Repeat("0", 22) /\ res = TRUE

C25_NoDelimiterIsTagless ==
    (op = "parse" /\ Len(id) = 22 /\ \A i \in DOMAIN id : id[i] \notin {"_", "-"}) =>
        res = <<(<< >>), SubSeq(id, 1, 9), SubSeq(id, 10, 22)>>

\* what follows the letters-plus-delimiter tag of s
BaseAfterTag(s) == SubSeq(s, Len(LeadingLetters(s)) + 2, Len(s))

\* C26: the field split of parse once the tag is determined: with a
\* delimiter, a base of 1 to 13 symbols is returned whole as the random field
\* with the timestamp field the literal "0", and a base of 14 or more symbols
\* is split into its last 13 symbols (random) and everything before them
\* (timestamp); without a delimiter, a 22-symbol base is split after position
\* 9 and a 26-symbol base after position 13; in every successful case the
\* fields concatenated reproduce the base, apart from the implied "0".
C26_FieldSplit ==
    op = "parse" =>
        /\ (HasLetterTag(id) /\ Len(BaseAfterTag(id)) \in 1..13) =>
                /\ ~IsError(res)
                /\ res[2] = <<"0">>
                /\ res[3] = BaseAfterTag(id)
        /\ (HasLetterTag(id) /\ Len(BaseAfterTag(id)) >= 14) =>
                LET base == BaseAfterTag(id)
                IN  /\ ~IsError(res)
                    /\ res[2] = SubSeq(base, 1, Len(base) - 13)
                    /\ res[3] = SubSeq(base, Len(base) - 12, Len(base))
                    /\ res[2] \o res[3] = base
        /\ (~HasLetterTag(id) /\ ~IsError(res)) =>
                /\ Len(id) \in {22, 26}
                /\ Len(id) = 22 => res[2] = SubSeq(id, 1, 9)
                /\ Len(id) = 26 => res[2] = SubSeq(id, 1, 13)
                /\ res[2] \o res[3] = id
        /\ (~HasLetterTag(id) /\ Len(id) \in {22, 26}
                              /\ \E i \in DOMAIN id : ~IsLetter(id[i])) =>
                ~IsError(res)

C26_Witness ==
    /\ op = "parse"
    /\ id = <<"A", "b", "-">> \o Repeat("z", 10) \o Repeat("Z", 13)
    /\ res = <<(<<"A", "b", "_">>), Repeat("z", 10), Repeat("Z", 13)>>

\* an untagged 26-symbol string is split after position 13
C26_WitnessAshid4 ==
    /\ op = "parse"
    /\ id = Repeat("0", 13) \o Repeat("Z", 13)
    /\ res = <<(<< >>), Repeat("0", 13), Repeat("Z", 13)>>

\* C27: create is injective: for all inputs that create accepts, two calls
\* whose (normalized tag, floor(timestamp), random value) triples differ
\* return different identifier strings.
C27_CreateInjective ==
    (op = "create2" /\ ~IsError(id2)) =>
        /\ (\/ MathFloor(time).mag # MathFloor(time2).mag
            \/ ToRandomBigInt(randomLong).mag # ToRandomBigInt(randomLong2).mag) =>
                id # id2
        /\ \A p \in Prefixes :
                WrittenTag(p) # WrittenTag(prefix) =>
                    create(p, time2, randomLong2) # id

C29_RandomSourceSelection ==
    op = "secureRandomLong" =>
        /\ source \in {"node", "web", "fallback"}
        /\ source = "node" <=> env.nodeCrypto
        /\ source = "web" <=> (~env.nodeCrypto /\ env.webCrypto)
        /\ source = "fallback" <=> (~env.nodeCrypto /\ ~env.webCrypto)
        /\ source = "fallback" <=> log = <<WarnNotSecure>>
        /\ source # "fallback" <=> log = << >>
        /\ res.type = "bigint"
        /\ ~res.neg
        /\ ~res.frac
        /\ BigLess(res.mag, TwoPow64)

C29_Witness ==
    /\ op = "secureRandomLong"
    /\ env = [nodeCrypto |-> FALSE, webCrypto |-> TRUE]
    /\ source = "web"
    /\ log = << >>
    /\ res = BigInt(MulAdd(TwoPow64, 1, 0 - 1))

\* the fallback warns
C29_WitnessFallback ==
    /\ op = "secureRandomLong"
    /\ env = [nodeCrypto |-> FALSE, webCrypto |-> FALSE]
    /\ source = "fallback"
    /\ log = <<WarnNotSecure>>
    /\ res = BigInt(<<429, 4967296>>)

\* the tag p handed to the Java create is absent (null or empty) or made
\* only of letters, without delimiter
UndelimitedLetters(p) ==
    p = Undefined \/ \A i \in DOMAIN p : IsLetter(p[i])

\* the arguments of the Java create at hand are those of C30: such a tag, a
\* timestamp in [0, 35184372088831] and a random value in [0, 2^63)
JavaUndelimitedCase ==
    /\ kind = "java"
    /\ UndelimitedLetters(prefix)
    /\ ~time.neg /\ BigLeq(time.mag, MAX_TIMESTAMP)
    /\ ~randomLong.neg /\ BigLess(randomLong.mag, TwoPow63)

\* C30: in the Java port, for a tag made only of letters without delimiter
\* (or no tag), a timestamp t in [0, 35184372088831] and a random value r in
\* [0, 2^63), parse of the created identifier succeeds, prefix returns the
\* lower-cased tag (the empty string for no tag), timestamp returns t and
\* random returns r.
C30_JavaUndelimitedRoundTrip ==
    JavaUndelimitedCase =>
        /\ op = "javaParse" => ~IsError(res)
        /\ op = "javaPrefix" =>
               res = (IF prefix = Undefined THEN << >> ELSE ToLowerCase(prefix))
        /\ op = "javaTimestamp" => res.type = "long" /\ res = time
        /\ op = "javaRandom" => res.type = "long" /\ res = randomLong

=============================================================================
